---- MODULE Spec2Model ----
(***************************************************************************)
(* Model of start.py: a thermostat controller that listens to the SENSOR   *)
(* and RESULT topics of a Tasmota device and publishes POWER commands.     *)
(*                                                                         *)
(* Temperatures are in tenths of a degree (21.8 -> 218); with one decimal  *)
(* the float sums 21.8 + 0.2 and 21.8 - 0.2 are exactly 22.0 and 21.6.     *)
(* Times are seconds since the epoch; the host's timezone is UTC.          *)
(***************************************************************************)
EXTENDS Integers, Sequences, FiniteSets, TLC

VARIABLES
    status,        \* self.status: "None", "ON" or "OFF"
    command_sent,  \* self.command_sent
    forced_ts,     \* self.forced_ts, 0 until a forced change is recorded
    queue,         \* self.queue, the deque of accepted readings
    states_file,   \* content of ~/.chauffage/states
    subscribed,    \* TRUE once on_connect has subscribed to the two topics
    inflight,      \* commands published on cmnd/.../POWER, not yet answered
    heater,        \* the relay of the device
    ev,            \* the event handled by the last step
    published,     \* the commands published by the last step
    logged         \* the mode the last step logged: "automatic", "forced", "none"

vars == <<status, command_sent, forced_ts, queue, states_file, subscribed,
          inflight, heater, ev, published, logged>>

(***************************************************************************)
(* Bounds of the model.                                                    *)
(***************************************************************************)
MaxReadings == 1
MaxInflight == 2
HistoryReadings == 103

(***************************************************************************)
(* Program constants.                                                      *)
(***************************************************************************)
TelePeriod == 300
consigne == 218
hyst == 2
ForcedPeriod == 3600
QueueMaxLen == 100

(***************************************************************************)
(* Values of a JSON payload.                                               *)
(***************************************************************************)
Float(v) == [type |-> "float", val |-> v]
Str == [type |-> "str", val |-> 0]
Absent == [type |-> "absent", val |-> 0]

\* Python truth value of a bound variable: 0 and 0.0 are false, a non-empty
\* string is true.
Truthy(v) == IF v.type = "float" THEN v.val # 0 ELSE TRUE

\* dt.strptime(message['Time'], "%Y-%m-%dT%H:%M:%S"): a tuple
\* <<day, hour, minute, second>> stands for the string; the day counts from
\* 1970-01-01.  The result is Absent when the key is missing or the string
\* does not parse, which leaves the variable `date' unbound.
NoDate == [day |-> 0, hour |-> 0, minute |-> 0, second |-> 0, bound |-> FALSE]

strptime(t) ==
    IF Len(t) = 4 /\ t[1] >= 0 /\ t[2] \in 0..23 /\ t[3] \in 0..59 /\ t[4] \in 0..59
    THEN [day |-> t[1], hour |-> t[2], minute |-> t[3], second |-> t[4],
          bound |-> TRUE]
    ELSE NoDate

\* dt.timestamp(date)
timestamp(date) ==
    ((date.day * 24 + date.hour) * 60 + date.minute) * 60 + date.second

\* is_confort with the closing hours 8 and 21 included.
is_confort_Inclusive(date) ==
    IF date.hour >= 6 /\ date.hour <= 8 THEN TRUE
    ELSE IF date.hour >= 19 /\ date.hour <= 21 THEN TRUE
    ELSE FALSE

is_confort(date) ==
    IF date.hour >= 6 /\ date.hour < 8 THEN TRUE
    ELSE IF date.hour >= 19 /\ date.hour < 21 THEN TRUE
    ELSE FALSE

(***************************************************************************)
(* The history of readings.                                                *)
(***************************************************************************)
NoFile == [exists |-> FALSE, states |-> <<>>]

\* A deque without maxlen.
deque_append_Unbounded(q, x) == Append(q, x)

\* deque(maxlen=100).append(x): the oldest entry leaves when the deque is full.
deque_append(q, x) ==
    IF Len(q) >= QueueMaxLen THEN Append(Tail(q), x) ELSE Append(q, x)

read_states(f) == IF f.exists THEN f.states ELSE <<>>

save_states(states) == [exists |-> TRUE, states |-> states]

(***************************************************************************)
(* Inputs.                                                                 *)
(***************************************************************************)
\* Wall-clock values returned by time.time(): day 20000 at 07:20:00 and at
\* 08:00:00.
ClockTimes == { 20000 * 86400 + 7 * 3600 + 20 * 60, 20000 * 86400 + 8 * 3600 }

\* The 'Time' strings of telemetry are 07:30:00 (comfort), 08:20:00 and
\* 08:20:01 (one hour and one hour and a second after the first clock
\* value), and 1970-01-01T00:30:00 as sent by a device whose clock is not set.
SensorMsg(t, temp, hum) == [Time |-> t, Temperature |-> temp, Humidity |-> hum]

NoMsg == SensorMsg(<<>>, Absent, Absent)

\* Well-formed telemetry: 21.0, 21.6, 22.0 and 22.1 degrees in the comfort
\* period, 21.0 and 21.6 degrees outside it.
ValidMsgs ==
    { SensorMsg(<<20000, 7, 30, 0>>, Float(210), Float(45)),
      SensorMsg(<<20000, 7, 30, 0>>, Float(216), Float(45)),
      SensorMsg(<<20000, 7, 30, 0>>, Float(220), Float(45)),
      SensorMsg(<<20000, 7, 30, 0>>, Float(221), Float(45)),
      SensorMsg(<<20000, 8, 20, 0>>, Float(210), Float(45)),
      SensorMsg(<<20000, 8, 20, 1>>, Float(210), Float(45)),
      SensorMsg(<<20000, 8, 20, 1>>, Float(216), Float(45)),
      SensorMsg(<<0, 0, 30, 0>>, Float(210), Float(45)) }

\* Telemetry with a missing or unparseable field, or with a zero value.
OddMsgs ==
    { SensorMsg(<<>>, Float(210), Float(45)),
      SensorMsg(<<20000, 24, 0, 0>>, Float(210), Float(45)),
      SensorMsg(<<20000, 7, 30, 0>>, Absent, Float(45)),
      SensorMsg(<<20000, 7, 30, 0>>, Float(210), Absent),
      SensorMsg(<<20000, 7, 30, 0>>, Float(0), Float(45)),
      SensorMsg(<<20000, 8, 20, 1>>, Float(0), Float(45)),
      SensorMsg(<<20000, 7, 30, 0>>, Float(210), Float(0)) }

SensorMsgs == ValidMsgs \cup OddMsgs

Powers == {"ON", "OFF"}

\* An event: its kind, the telemetry payload, the POWER value of a result,
\* the value of time.time() when the handler read it (else 0), and whether
\* self.status was still None when a result came in.
Event(kind, msg, power, now, first) ==
    [kind |-> kind, msg |-> msg, POWER |-> power, now |-> now, first |-> first]

(***************************************************************************)
(* on_message, topic tele/tasmota_9DA6D1/SENSOR.                           *)
(***************************************************************************)
\* `if temperature and humidity and date': an unbound name raises, which the
\* outer handler catches; a false value skips the block.  Either way the
\* reading is dropped.
Accepted(msg) ==
    /\ msg.Temperature.type # "absent" /\ Truthy(msg.Temperature)
    /\ msg.Humidity.type # "absent" /\ Truthy(msg.Humidity)
    /\ strptime(msg.Time).bound

Reading(msg) ==
    [date |-> strptime(msg.Time), temperature |-> msg.Temperature,
     humidity |-> msg.Humidity]

\* Automatic without the one-hour period.
Automatic_NoPeriod(fts, ts) == fts < ts

\* `self.forced_ts < dt.timestamp(date) - 3600': automatic mode for a reading
\* stamped ts.
Automatic(fts, ts) == fts < ts - ForcedPeriod

\* Command switching off above the band whatever self.status is.
Command_NoStatusCheck(st, fts, r) ==
    IF Automatic(fts, timestamp(r.date))
    THEN IF is_confort(r.date)
         THEN IF r.temperature.type = "float"
                 /\ r.temperature.val > consigne + hyst
              THEN "OFF"
              ELSE IF st # "ON" /\ r.temperature.type = "float"
                      /\ r.temperature.val < consigne - hyst
                   THEN "ON" ELSE "none"
         ELSE "OFF"
    ELSE "none"

\* Command with the limits of the band taken as outside it.
Command_InclusiveBand(st, fts, r) ==
    IF Automatic(fts, timestamp(r.date))
    THEN IF is_confort(r.date)
         THEN IF st = "ON"
              THEN IF r.temperature.type = "float"
                      /\ r.temperature.val >= consigne + hyst
                   THEN "OFF" ELSE "none"
              ELSE IF r.temperature.type = "float"
                      /\ r.temperature.val <= consigne - hyst
                   THEN "ON" ELSE "none"
         ELSE "OFF"
    ELSE "none"

\* Command applying the hysteresis outside the comfort period too.
Command_HeatOutsideComfort(st, fts, r) ==
    IF Automatic(fts, timestamp(r.date))
    THEN IF st = "ON"
         THEN IF is_confort(r.date)
              THEN IF r.temperature.type = "float"
                      /\ r.temperature.val > consigne + hyst
                   THEN "OFF" ELSE "none"
              ELSE "OFF"
         ELSE IF r.temperature.type = "float"
                 /\ r.temperature.val < consigne - hyst
              THEN "ON"
              ELSE IF is_confort(r.date) THEN "none" ELSE "OFF"
    ELSE "none"

\* The command the handler publishes for an accepted reading, or "none".
\* Comparing a string with a float raises TypeError: no command.
Command(st, fts, r) ==
    IF Automatic(fts, timestamp(r.date))
    THEN IF is_confort(r.date)
         THEN IF st = "ON"
              THEN IF r.temperature.type = "float"
                      /\ r.temperature.val > consigne + hyst
                   THEN "OFF" ELSE "none"
              ELSE IF r.temperature.type = "float"
                      /\ r.temperature.val < consigne - hyst
                   THEN "ON" ELSE "none"
         ELSE "OFF"
    ELSE "none"

Publish(payload) ==
    /\ Len(inflight) < MaxInflight
    /\ inflight' = Append(inflight, payload)
    /\ published' = <<payload>>

NoPublish == inflight' = inflight /\ published' = <<>>

poweron == command_sent' = TRUE /\ Publish("ON")

\* poweroff without the mark of a command of the controller.
poweroff_Unmarked == command_sent' = command_sent /\ Publish("OFF")

poweroff == command_sent' = TRUE /\ Publish("OFF")

\* The handler of a telemetry payload.
on_sensor(msg) ==
    /\ subscribed
    /\ ev' = Event("sensor", msg, "absent", 0, FALSE)
    /\ UNCHANGED <<status, forced_ts, subscribed, heater>>
    /\ IF Accepted(msg)
       THEN /\ queue' = deque_append(queue, Reading(msg))
            /\ states_file' = save_states(queue')
            /\ logged' = IF Automatic(forced_ts, timestamp(Reading(msg).date))
                         THEN "automatic" ELSE "forced"
            /\ LET c == Command(status, forced_ts, Reading(msg))
               IN  CASE c = "ON" -> poweron
                     [] c = "OFF" -> poweroff
                     [] OTHER -> command_sent' = command_sent /\ NoPublish
       ELSE /\ UNCHANGED <<queue, states_file, command_sent>>
            /\ logged' = "none"
            /\ NoPublish

\* A telemetry arrives; at most MaxReadings readings are recorded.
Sensor(msg) ==
    /\ Accepted(msg) => Len(queue) < MaxReadings
    /\ on_sensor(msg)

(***************************************************************************)
(* on_message, topic stat/tasmota_9DA6D1/RESULT.                           *)
(***************************************************************************)
\* on_result recording a forced change whoever caused the result.
on_result_AlwaysForced(power, now) ==
    IF power # "absent"
    THEN /\ command_sent' = FALSE
         /\ status' = power
         /\ forced_ts' = now
    ELSE UNCHANGED <<status, command_sent, forced_ts>>

\* on_result never recording a forced change.
on_result_NeverForced(power, now) ==
    IF power # "absent"
    THEN /\ command_sent' = FALSE
         /\ status' = power
         /\ forced_ts' = forced_ts
    ELSE UNCHANGED <<status, command_sent, forced_ts>>

\* on_result taking any result, with or without POWER, as the answer awaited.
on_result_ClearOnAny(power, now) ==
    IF command_sent
    THEN /\ command_sent' = FALSE
         /\ status' = IF power # "absent" THEN power ELSE status
         /\ forced_ts' = forced_ts
    ELSE IF power # "absent"
         THEN /\ status' = power
              /\ forced_ts' = now
              /\ command_sent' = command_sent
         ELSE UNCHANGED <<status, command_sent, forced_ts>>

\* on_result keeping self.status when the result is taken as forced.
on_result_KeepStatus(power, now) ==
    IF power # "absent"
    THEN IF command_sent
         THEN /\ command_sent' = FALSE
              /\ status' = power
              /\ forced_ts' = forced_ts
         ELSE /\ status' = status
              /\ forced_ts' = now
              /\ command_sent' = command_sent
    ELSE UNCHANGED <<status, command_sent, forced_ts>>

\* power is the value of the POWER key, or "absent"; now is time.time().
on_result(power, now) ==
    IF power # "absent"
    THEN IF command_sent
         THEN /\ command_sent' = FALSE
              /\ status' = power
              /\ forced_ts' = forced_ts
         ELSE /\ status' = power
              /\ forced_ts' = now
              /\ command_sent' = command_sent
    ELSE UNCHANGED <<status, command_sent, forced_ts>>

\* The device answers the oldest command: ON and OFF set the relay, any other
\* payload only reports it.
Ack ==
    /\ subscribed
    /\ inflight # <<>>
    /\ LET cmd == Head(inflight)
           power == IF cmd \in Powers THEN cmd ELSE heater
       IN  /\ heater' = power
           /\ \E now \in ClockTimes :
                 /\ on_result(power, now)
                 /\ ev' = Event("ack", NoMsg, power,
                                IF command_sent THEN 0 ELSE now, status = "None")
    /\ inflight' = Tail(inflight)
    /\ published' = <<>>
    /\ logged' = "none"
    /\ UNCHANGED <<queue, states_file, subscribed>>

\* Someone presses the button, or another client switches the relay.
Forced(power) ==
    /\ subscribed
    /\ heater' = power
    /\ \E now \in ClockTimes :
          /\ on_result(power, now)
          /\ ev' = Event("forced", NoMsg, power,
                         IF command_sent THEN 0 ELSE now, status = "None")
    /\ NoPublish
    /\ logged' = "none"
    /\ UNCHANGED <<queue, states_file, subscribed>>

\* A result without the POWER key, e.g. the answer to a teleperiod command.
OtherResult ==
    /\ subscribed
    /\ ev' = Event("other", NoMsg, "absent", 0, FALSE)
    /\ on_result("absent", 0)
    /\ NoPublish
    /\ logged' = "none"
    /\ UNCHANGED <<queue, states_file, subscribed, heater>>

(***************************************************************************)
(* on_connect: subscribe and ask the device for its power state.           *)
(***************************************************************************)
\* on_connect sending the probe without marking it as its own command.
on_connect_NoFlag ==
    /\ subscribed' = TRUE
    /\ command_sent' = command_sent
    /\ Publish("Hello world!")
    /\ ev' = Event("connect", NoMsg, "absent", 0, FALSE)
    /\ logged' = "none"
    /\ UNCHANGED <<status, forced_ts, queue, states_file, heater>>

\* on_connect starting afresh.
on_connect_Reset ==
    /\ subscribed' = TRUE
    /\ command_sent' = TRUE
    /\ Publish("Hello world!")
    /\ ev' = Event("connect", NoMsg, "absent", 0, FALSE)
    /\ logged' = "none"
    /\ status' = "None"
    /\ forced_ts' = 0
    /\ UNCHANGED <<queue, states_file, heater>>

on_connect ==
    /\ subscribed' = TRUE
    /\ command_sent' = TRUE
    /\ Publish("Hello world!")
    /\ ev' = Event("connect", NoMsg, "absent", 0, FALSE)
    /\ logged' = "none"
    /\ UNCHANGED <<status, forced_ts, queue, states_file, heater>>

(***************************************************************************)
(* MqttClient.__init__ and the event loop.                                 *)
(***************************************************************************)
Init ==
    /\ status = "None"
    /\ command_sent = FALSE
    /\ forced_ts = 0
    /\ states_file = NoFile
    /\ queue = read_states(states_file)
    /\ subscribed = FALSE
    /\ inflight = <<>>
    /\ heater \in Powers
    /\ ev = Event("start", NoMsg, "absent", 0, FALSE)
    /\ published = <<>>
    /\ logged = "none"

Next ==
    \/ on_connect
    \/ \E msg \in SensorMsgs : Sensor(msg)
    \/ Ack
    \/ \E power \in Powers : Forced(power)
    \/ OtherResult

Spec == Init /\ [][Next]_vars

(***************************************************************************)
(* The controller fed with 21.0 degrees at every hour of the day, at       *)
(* hh:00:00 and at hh:59:59.                                               *)
(***************************************************************************)
HourMsgs ==
    { SensorMsg(<<20000, h, m, m>>, Float(210), Float(45)) :
          h \in 0..23, m \in {0, 59} }

NextComfort ==
    \/ on_connect
    \/ \E msg \in HourMsgs : Sensor(msg)
    \/ Ack

SpecComfort == Init /\ [][NextComfort]_vars

(***************************************************************************)
(* The controller fed with one reading of 21.8 degrees every TelePeriod    *)
(* seconds from 06:30:00 on, HistoryReadings readings in all.              *)
(***************************************************************************)
FirstTime == 20000 * 86400 + 6 * 3600 + 30 * 60

\* The 'Time' string of the instant t.
TimeString(t) == <<t \div 86400, (t \div 3600) % 24, (t \div 60) % 60, t % 60>>

NextTime ==
    IF queue = <<>> THEN FirstTime
    ELSE timestamp(queue[Len(queue)].date) + TelePeriod

Periodic ==
    /\ NextTime < FirstTime + HistoryReadings * TelePeriod
    /\ on_sensor(SensorMsg(TimeString(NextTime), Float(218), Float(45)))

NextHistory ==
    \/ on_connect
    \/ Periodic
    \/ Ack

SpecHistory == Init /\ [][NextHistory]_vars

(***************************************************************************)
(* The controller fed with telemetry that has a missing, unparseable, zero *)
(* or non-numeric field.                                                   *)
(***************************************************************************)
NonNumericMsgs ==
    { SensorMsg(<<20000, 7, 30, 0>>, Str, Float(45)),
      SensorMsg(<<20000, 8, 20, 1>>, Str, Float(45)),
      SensorMsg(<<20000, 7, 30, 0>>, Float(218), Str) }

NextMalformed ==
    \/ on_connect
    \/ \E msg \in OddMsgs \cup NonNumericMsgs : Sensor(msg)
    \/ Ack
    \/ \E power \in Powers : Forced(power)

SpecMalformed == Init /\ [][NextMalformed]_vars

(***************************************************************************)
(* The controller and the device alone: the connection is made once and    *)
(* kept, nobody presses the button, every power result answers a command   *)
(* of the controller, in the order of the commands.                        *)
(***************************************************************************)
FirstConnect == ~subscribed /\ on_connect

NextNoButton ==
    \/ FirstConnect
    \/ \E msg \in SensorMsgs : Sensor(msg)
    \/ Ack
    \/ OtherResult

SpecNoButton == Init /\ [][NextNoButton]_vars

(***************************************************************************)
(* The controller on a transport that can lose a command: the device       *)
(* never answers it.                                                       *)
(***************************************************************************)
Lost ==
    /\ inflight # <<>>
    /\ inflight' = Tail(inflight)
    /\ ev' = Event("lost", NoMsg, "absent", 0, FALSE)
    /\ published' = <<>>
    /\ logged' = "none"
    /\ UNCHANGED <<status, command_sent, forced_ts, queue, states_file,
                   subscribed, heater>>

NextLossy == Next \/ Lost

SpecLossy == Init /\ [][NextLossy]_vars

(***************************************************************************)
(* Properties.                                                             *)
(***************************************************************************)
Last(q) == q[Len(q)]

IsSensor(e) == e.kind = "sensor"

IsPowerResult(e) == e.kind \in {"ack", "forced"}

DateOf(e) == strptime(e.msg.Time)

Stamp(e) == timestamp(DateOf(e))

\* A forced change was recorded less than one hour before the instant ts.
Overridden(fts, ts) == fts # 0 /\ ts - fts < 3600

\* C1: a telemetry handled while a forced change was recorded less than one
\* hour before the reading's timestamp publishes no command and leaves
\* command_sent, status and forced_ts as they were, whatever the temperature
\* and the period of the day.
C1_OverrideSuppression ==
    [][ (IsSensor(ev') /\ DateOf(ev').bound /\ Overridden(forced_ts, Stamp(ev')))
        => /\ published' = <<>>
           /\ inflight' = inflight
           /\ command_sent' = command_sent
           /\ status' = status
           /\ forced_ts' = forced_ts ]_vars

\* A reading of 21.0 degrees in the comfort period, ten minutes after a
\* forced change, with the heater not ON: recorded, no command.
C1_Witness ==
    /\ IsSensor(ev) /\ Accepted(ev.msg)
    /\ Overridden(forced_ts, Stamp(ev))
    /\ Stamp(ev) - forced_ts = 600
    /\ is_confort(DateOf(ev))
    /\ ev.msg.Temperature.val < consigne - hyst
    /\ status # "ON"
    /\ published = <<>>
    /\ logged = "forced"

\* C2: a power result processed while command_sent is true clears
\* command_sent, sets status to the reported state and leaves forced_ts as it
\* was.
C2_ResultWhileAwaiting ==
    [][ (IsPowerResult(ev') /\ command_sent)
        => /\ command_sent' = FALSE
           /\ status' = ev'.POWER
           /\ forced_ts' = forced_ts ]_vars

\* A result was attributed to the controller: forced_ts is still 0, which a
\* result taken as forced would have overwritten.
C2_Witness ==
    /\ IsPowerResult(ev)
    /\ ev.now = 0
    /\ ~command_sent
    /\ status = ev.POWER
    /\ forced_ts = 0

\* C3: a power result processed while command_sent is false sets status to
\* the reported state and forced_ts to the current time, leaves command_sent
\* false, and the controller is then in forced mode for a telemetry stamped
\* now and in automatic mode for one stamped now + 3601 s.
C3_ForcedChange ==
    [][ (IsPowerResult(ev') /\ ~command_sent)
        => /\ status' = ev'.POWER
           /\ forced_ts' = ev'.now
           /\ ev'.now \in ClockTimes
           /\ command_sent' = FALSE
           /\ ~Automatic(forced_ts', ev'.now)
           /\ Automatic(forced_ts', ev'.now + 3601) ]_vars

\* The button was pressed while no command was pending.
C3_Witness ==
    /\ ev.kind = "forced"
    /\ ev.now \in ClockTimes
    /\ forced_ts = ev.now
    /\ status = ev.POWER
    /\ ~command_sent

\* The telemetry carries a parseable Time and numeric temperature and humidity.
IsReading(e) ==
    /\ IsSensor(e)
    /\ DateOf(e).bound
    /\ e.msg.Temperature.type = "float"
    /\ e.msg.Humidity.type = "float"

\* C4: on a telemetry stamped now the automatic decision is skipped (the
\* handler logs the forced mode) if and only if a forced change was recorded
\* and now - forced_ts < 3600; never while forced_ts has its initial value,
\* and not when now - forced_ts is exactly 3600.
C4_OverrideWindow ==
    [][ (IsSensor(ev') /\ Accepted(ev'.msg))
        => /\ logged' \in {"automatic", "forced"}
           /\ (logged' = "forced") <=> Overridden(forced_ts, Stamp(ev')) ]_vars

\* C5: the first power result processed after the connect handler, whatever
\* telemetry came before it, sets status to the reported state and leaves
\* forced_ts at its initial value.
C5_FirstResult ==
    [][ (IsPowerResult(ev') /\ status = "None")
        => /\ ev'.first
           /\ status' = ev'.POWER
           /\ forced_ts = 0
           /\ forced_ts' = 0 ]_vars

\* The button is pressed before the probe is answered, after a reading was
\* recorded: the first result is taken as the answer to the probe.
C5_Witness ==
    /\ ev.kind = "forced"
    /\ ev.first
    /\ queue # <<>>
    /\ inflight # <<>>
    /\ status = ev.POWER
    /\ forced_ts = 0

\* C6 as stated: a telemetry causes an ON command only when status is not ON
\* and an OFF command only when status is ON.
C6_NoRedundantCommand ==
    [][ IsSensor(ev')
        => /\ (published' = <<"ON">> => status # "ON")
           /\ (published' = <<"OFF">> => status = "ON") ]_vars

\* C6 amended: a telemetry causes an ON command only when status is not ON,
\* and an OFF command only when status is ON or the reading is outside the
\* comfort period.
C6_NoRedundantCommandInComfort ==
    [][ IsSensor(ev')
        => /\ published' \in {<<>>, <<"ON">>, <<"OFF">>}
           /\ (published' = <<"ON">> => status # "ON")
           /\ (published' = <<"OFF">>
                 => (status = "ON" \/ ~is_confort(DateOf(ev')))) ]_vars

\* An OFF command in the comfort period with the heater ON.
C6_Witness ==
    /\ IsSensor(ev)
    /\ is_confort(DateOf(ev))
    /\ published = <<"OFF">>
    /\ status = "ON"
    /\ command_sent

\* C7: at most one command is waiting for its answer, and command_sent is
\* true exactly when one is.
C7_OneOutstanding ==
    /\ Len(inflight) <= 1
    /\ command_sent <=> (Len(inflight) = 1)

\* C8: a telemetry outside the comfort period, not within one hour after a
\* recorded forced change, publishes OFF and sets command_sent, for every
\* temperature and every status.
C8_NonComfortGate ==
    [][ (IsReading(ev') /\ ~Overridden(forced_ts, Stamp(ev'))
           /\ ~is_confort(DateOf(ev')))
        => (published' = <<"OFF">> /\ command_sent') ]_vars

\* C9: a telemetry in the comfort period, not within one hour after a
\* recorded forced change, publishes OFF when status is ON and the
\* temperature is above consigne + hyst, and ON when status is not ON and the
\* temperature is below consigne - hyst; command_sent becomes true and status
\* is unchanged.
C9_Hysteresis ==
    [][ (IsReading(ev') /\ ~Overridden(forced_ts, Stamp(ev'))
           /\ is_confort(DateOf(ev')))
        => /\ (status = "ON" /\ ev'.msg.Temperature.val > 218 + 2)
                => (published' = <<"OFF">> /\ command_sent' /\ status' = status)
           /\ (status # "ON" /\ ev'.msg.Temperature.val < 218 - 2)
                => (published' = <<"ON">> /\ command_sent' /\ status' = status) ]_vars

InDeadBand(e) ==
    /\ e.msg.Temperature.val >= 218 - 2
    /\ e.msg.Temperature.val <= 218 + 2

\* C10 as stated: a telemetry with a temperature in the dead band publishes
\* no command and leaves command_sent as it was, whatever status is.
C10_DeadBand ==
    [][ (IsReading(ev') /\ InDeadBand(ev'))
        => (published' = <<>> /\ command_sent' = command_sent) ]_vars

\* C10 amended: in the comfort period, a telemetry with a temperature in the
\* dead band publishes no command and leaves command_sent as it was, whatever
\* status is.
C10_DeadBandInComfort ==
    [][ (IsReading(ev') /\ InDeadBand(ev') /\ is_confort(DateOf(ev')))
        => /\ published' = <<>>
           /\ inflight' = inflight
           /\ command_sent' = command_sent ]_vars

\* 22.0 degrees in the comfort period in automatic mode with the heater ON:
\* recorded, no command.
C10_Witness ==
    /\ IsSensor(ev) /\ Accepted(ev.msg)
    /\ is_confort(DateOf(ev))
    /\ ev.msg.Temperature.val = 220
    /\ status = "ON"
    /\ logged = "automatic"
    /\ published = <<>>

\* C11: every ON command is published by the handler of a telemetry that is
\* in the comfort period and not within one hour after a recorded forced
\* change, while status is not ON and the temperature is below
\* consigne - hyst; none is published for a reading outside the comfort period.
C11_HeatingOnlyInComfort ==
    [][ published' = <<"ON">>
        => /\ IsSensor(ev') /\ Accepted(ev'.msg)
           /\ is_confort(DateOf(ev'))
           /\ ~Overridden(forced_ts, Stamp(ev'))
           /\ status # "ON"
           /\ ev'.msg.Temperature.type = "float"
           /\ ev'.msg.Temperature.val < 218 - 2 ]_vars

\* An ON command for 21.0 degrees at 07:30:00 with the heater OFF.
C11_Witness ==
    /\ IsSensor(ev)
    /\ published = <<"ON">>
    /\ Last(inflight) = "ON"
    /\ DateOf(ev).hour = 7
    /\ status = "OFF"
    /\ ev.msg.Temperature.val = 210

ComfortHours == {6, 7, 19, 20}

\* C12: is_confort is true exactly for the hours 6, 7, 19 and 20, whatever
\* the minutes and seconds; in automatic mode with the heater not ON a
\* reading of 21.0 degrees then gives ON in these hours and OFF in all others.
C12_ComfortSchedule ==
    [][ (IsSensor(ev') /\ Accepted(ev'.msg))
        => /\ is_confort(DateOf(ev')) <=> (DateOf(ev').hour \in ComfortHours)
           /\ (logged' = "automatic" /\ status # "ON")
                => /\ (published' = <<"ON">>)
                        <=> (DateOf(ev').hour \in ComfortHours)
                   /\ (published' = <<"OFF">>)
                        <=> (DateOf(ev').hour \notin ComfortHours) ]_vars

\* A reading at 20:59:59 switched the heater on.
C12_Witness ==
    /\ IsSensor(ev)
    /\ DateOf(ev).hour = 20 /\ DateOf(ev).minute = 59 /\ DateOf(ev).second = 59
    /\ logged = "automatic"
    /\ published = <<"ON">>

\* C13: the history never holds more than 100 readings; each accepted
\* reading is added at the end, after the oldest one was removed if the
\* history was full, and no other event changes it: the history is the last
\* min(n, 100) readings in arrival order.
C13_BoundedFifo ==
    /\ [](/\ Len(queue) <= 100
          /\ \A i \in 1..(Len(queue) - 1) :
                 timestamp(queue[i + 1].date) = timestamp(queue[i].date) + 300
          /\ queue # <<>> =>
                 Len(queue) = IF (NextTime - FirstTime) \div 300 < 100
                              THEN (NextTime - FirstTime) \div 300 ELSE 100)
    /\ [][ IF IsSensor(ev') /\ Accepted(ev'.msg)
           THEN queue' = IF Len(queue) < 100
                         THEN Append(queue, Reading(ev'.msg))
                         ELSE Append(Tail(queue), Reading(ev'.msg))
           ELSE queue' = queue ]_vars

\* The 103rd reading is recorded: the three oldest have left.
C13_Witness ==
    /\ IsSensor(ev) /\ Accepted(ev.msg)
    /\ Len(queue) = 100
    /\ timestamp(queue[1].date) = FirstTime + 3 * 300
    /\ queue[100] = Reading(ev.msg)

\* A field of the telemetry is missing, unparseable or not a number.
Malformed(e) ==
    \/ ~DateOf(e).bound
    \/ e.msg.Temperature.type # "float"
    \/ e.msg.Humidity.type # "float"

\* C14: a telemetry with a missing or unparseable timestamp, temperature or
\* humidity, a non-numeric value included, leaves the history, its file,
\* status, command_sent and forced_ts as they were and publishes no command.
C14_MalformedDiscarded ==
    [][ (IsSensor(ev') /\ Malformed(ev'))
        => /\ queue' = queue
           /\ states_file' = states_file
           /\ status' = status
           /\ command_sent' = command_sent
           /\ forced_ts' = forced_ts
           /\ published' = <<>> ]_vars

\* C15: every telemetry with a parseable timestamp and numeric temperature
\* and humidity, zero included, is appended to the history and saved,
\* whatever the mode and the command.
C15_ValidRecorded ==
    [][ IsReading(ev')
        => /\ queue' = Append(queue, Reading(ev'.msg))
           /\ states_file' = [exists |-> TRUE, states |-> queue'] ]_vars

\* C16: while every power result answers a command of the controller,
\* forced_ts keeps its initial value: no forced change is ever recorded.
C16_NoSpuriousOverride == forced_ts = 0

\* C17: once command_sent is true, a telemetry, a connect or a result
\* without POWER leaves it true; only a power result makes it false, and that
\* result, a button press after a lost command included, is taken as the
\* answer: forced_ts is not changed.
C17_NoAckTimeout ==
    [][ command_sent
        => IF IsPowerResult(ev')
           THEN command_sent' = FALSE /\ forced_ts' = forced_ts
           ELSE command_sent' = TRUE ]_vars

\* The only command was lost; the button is pressed and the press is taken
\* as the answer.
C17_Witness ==
    /\ ev.kind = "forced"
    /\ ev.now = 0
    /\ inflight = <<>>
    /\ ~command_sent
    /\ forced_ts = 0
    /\ status = ev.POWER

\* C18: every connect event publishes the probe and sets command_sent, and
\* leaves the history, its file, status and forced_ts as they were.
C18_Reconnect ==
    [][ ev'.kind = "connect"
        => /\ published' = <<"Hello world!">>
           /\ inflight' = Append(inflight, "Hello world!")
           /\ command_sent' = TRUE
           /\ queue' = queue
           /\ states_file' = states_file
           /\ status' = status
           /\ forced_ts' = forced_ts ]_vars

\* A reconnect after a reading was recorded, a state was reported and a
\* forced change was recorded.
C18_Witness ==
    /\ ev.kind = "connect"
    /\ published = <<"Hello world!">>
    /\ command_sent
    /\ queue # <<>>
    /\ status # "None"
    /\ forced_ts # 0

\* C19: a telemetry leaves status and forced_ts as they were, changes the
\* history only by appending the reading, and changes command_sent only by
\* setting it when it publishes a command; a result leaves the history and
\* its file as they were and publishes nothing.
C19_SeparatePaths ==
    [][ /\ IsSensor(ev')
           => /\ status' = status
              /\ forced_ts' = forced_ts
              /\ queue' \in {queue, Append(queue, Reading(ev'.msg))}
              /\ IF published' = <<>>
                 THEN command_sent' = command_sent
                 ELSE command_sent' = TRUE
        /\ (IsPowerResult(ev') \/ ev'.kind = "other")
           => /\ queue' = queue
              /\ states_file' = states_file
              /\ published' = <<>>
              /\ \/ inflight' = inflight
                 \/ ev'.kind = "ack" /\ inflight' = Tail(inflight) ]_vars

\* A telemetry published OFF while no command was pending and a forced
\* change was on record.
C19_Witness ==
    /\ IsSensor(ev)
    /\ published = <<"OFF">>
    /\ inflight = <<"OFF">>
    /\ command_sent
    /\ queue # <<>>
    /\ forced_ts # 0

\* C20: status is None until a power result is processed and is then the
\* state reported by the last power result processed, whoever the result is
\* attributed to and whatever command was last published.
C20_StatusMirrorsReport ==
    /\ status = "None"
    /\ [][ IF IsPowerResult(ev')
           THEN status' = ev'.POWER
           ELSE status' = status ]_vars

\* The button switched the heater OFF while the ON command of the controller
\* is still unanswered, after an earlier forced change.
C20_Witness ==
    /\ ev.kind = "forced"
    /\ ev.POWER = "OFF"
    /\ status = "OFF"
    /\ inflight = <<"ON">>
    /\ ~ev.first

====
